---- MODULE Spec2Model ----
(***************************************************************************)
(* Model of micro_cleaner.analyze_file (src/micro_cleaner.py, lines 54 to  *)
(* 225): load a CSV file, profile it, derive the cleaned table, write the  *)
(* cleaned table and the report, echo the report, return the report path.  *)
(*                                                                         *)
(* A table is a sequence of rows, a row a sequence of cells, a cell a      *)
(* tagged value (integer, text or null).  Files on disk are modelled by    *)
(* their content, one cleaned file and one report per timestamp in each    *)
(* directory; names of files and directories by the classes of the         *)
(* characters they hold; the clock is counted in ticks, several ticks to   *)
(* the second, and the report's timestamp keeps whole seconds only, as the *)
(* strftime format of line 150 does.                                       *)
(***************************************************************************)
EXTENDS Integers, Sequences, FiniteSets, TLC

VARIABLES
    file,              \* the input file at file_path: [kind, table]
    file_path,         \* the file_path argument: [dir, stem, suffix], by classes of characters
    cwd,               \* the working directory of the process
    other_dirs,        \* the directories that a caller passes as output_dir
    stdout,            \* the output stream of the process: [encoding, errors]
    invocations,       \* how many times the tool is run on the file
    autoclean,         \* the autoclean argument of the run in progress
    output_dir,        \* output_dir of the run in progress: <<>> (None) or <<directory>>
    pc,                \* position of the run inside analyze_file
    now,               \* wall clock, in ticks
    df,                \* the loaded table
    stats,             \* total_rows, duplicate_count, outlier_cols, unique_rows, worthy_ratio
    cleaned_df,        \* df.drop_duplicates().dropna()
    cleaned_file_path, \* path of the cleaned file, or a placeholder status
    report_path,       \* path of the report file of this run
    report_lines,      \* the report block, as label/value entries
    cleaned_file,      \* disk: content of <stem>_cleaned.csv in each directory
    report_files,      \* disk: content of each clean_report_<stem>_<timestamp>.txt
    events,            \* prints and write attempts of the run in progress
    outcome,           \* how each write of the run in progress ended
    before,            \* the disk and output_dir as they were when the run was called
    ret,               \* value returned by the last completed run
    runs               \* one record for each completed run

vars == <<file, file_path, cwd, other_dirs, stdout, invocations, autoclean, output_dir,
          pc, now, df, stats, cleaned_df, cleaned_file_path, report_path, report_lines,
          cleaned_file, report_files, events, outcome, before, ret, runs>>

----------------------------------------------------------------------------
(* Bounds *)

\* Specification Spec: rows and columns of the input table, calls, clock
MaxRows == 3
\* Rows of the input table of the runs that vary the place and the stream
PlacedRows == 1
MaxCols == 1
MaxRuns == 2
MaxSeconds == 2
TicksPerSecond == 2
\* Specification SpecProfile: cells (rows times columns) of the input table,
\* and the length of a single numeric column
MaxCells == 8
MaxColumnLen == 5
\* Specification SpecRatio: row counts 1..SmallTotal with any number of
\* duplicate rows, and BigTotalLo..BigTotalLo+BigTotalSpan with at most
\* MaxDupRows duplicate rows
SmallTotal == 160
BigTotalLo == 20000
BigTotalSpan == 4
MaxDupRows == 3

----------------------------------------------------------------------------
(* Cells and tables *)

Null == [kind |-> "null", val |-> 0]
IntCell(n) == [kind |-> "int", val |-> n]
TextCell == [kind |-> "str", val |-> 0]

isnull(c) == c.kind = "null"

Range(s) == {s[i] : i \in 1..Len(s)}

Min(a, b) == IF a < b THEN a ELSE b

\* Sequences over S of length lo..hi
SeqsOf(S, lo, hi) == UNION {[1..n -> S] : n \in lo..hi}

\* Tables of 1..maxCols columns and 0..maxRows rows with cells in cells
Tables(cells, maxCols, maxRows) ==
    UNION {SeqsOf([1..c -> cells], 0, maxRows) : c \in 1..maxCols}

\* Tables of any shape with at most maxCells cells, and the table without rows
TablesWithin(cells, maxCells) ==
    {<<>>} \cup UNION {[1..shape[1] -> [1..shape[2] -> cells]] :
                          shape \in {p \in (1..maxCells) \X (1..maxCells) :
                                         p[1] * p[2] <= maxCells}}

\* The subsequence of s at the indices of I, in order
RECURSIVE Pick(_, _, _)
Pick(s, I, i) ==
    IF i > Len(s) THEN <<>>
    ELSE IF i \in I THEN <<s[i]>> \o Pick(s, I, i + 1)
    ELSE Pick(s, I, i + 1)

----------------------------------------------------------------------------
(* pandas operations used by analyze_file *)

\* DataFrame.duplicated(): row i repeats an earlier row (null equals null)
duplicated(t) == {i \in 1..Len(t) : \E j \in 1..(i - 1) : t[j] = t[i]}

\* DataFrame.drop_duplicates(): keep the first occurrence of every row
drop_duplicates(t) == Pick(t, (1..Len(t)) \ duplicated(t), 1)

\* DataFrame.dropna(): drop every row that holds at least one null cell
dropna(t) ==
    Pick(t, {i \in 1..Len(t) : \A c \in 1..Len(t[i]) : ~isnull(t[i][c])}, 1)

\* Variant: the duplicates are not dropped (df.dropna() alone)
clean_without_dedup(t) == dropna(t)

\* cleaned_df = df.drop_duplicates().dropna()
clean(t) == dropna(drop_duplicates(t))

\* Column c of table t
Column(t, c) == [i \in 1..Len(t) |-> t[i][c]]

\* Variant: the null cells are counted as zeros instead of being dropped
non_null_fillna(col) ==
    [i \in 1..Len(col) |-> IF isnull(col[i]) THEN IntCell(0) ELSE col[i]]

\* Series.dropna() on a column
non_null_of(col) == Pick(col, {i \in 1..Len(col) : ~isnull(col[i])}, 1)

\* select_dtypes(include=[np.number]): no text cell in the column
is_numeric(col) == \A i \in 1..Len(col) : col[i].kind \in {"int", "null"}

\* k-th smallest value (1-based) of a non-empty sequence of integer cells
Kth(s, k) ==
    CHOOSE v \in {s[i].val : i \in 1..Len(s)} :
        /\ Cardinality({i \in 1..Len(s) : s[i].val < v}) < k
        /\ k <= Cardinality({i \in 1..Len(s) : s[i].val <= v})

\* Series.quantile(num/4) with linear interpolation, times 4
quantile4(s, num) ==
    LET n  == Len(s)
        p  == (n - 1) * num
        lo == p \div 4
        fr == p % 4
        a  == Kth(s, lo + 1)
        b  == Kth(s, Min(lo + 2, n))
    IN  4 * a + fr * (b - a)

\* Number of outliers recorded for a numeric column (0: the column is not listed)
outlier_count(col) ==
    LET non_null == non_null_of(col)
    IN  IF Len(non_null) > 0
        THEN LET Q1  == quantile4(non_null, 1)
                 Q3  == quantile4(non_null, 3)
                 IQR == Q3 - Q1
             IN  IF IQR > 0
                 THEN LET lower == 2 * Q1 - 3 * IQR
                          upper == 2 * Q3 + 3 * IQR
                      IN  Cardinality({i \in 1..Len(col) :
                              /\ ~isnull(col[i])
                              /\ \/ 8 * col[i].val < lower
                                 \/ 8 * col[i].val > upper})
                 ELSE 0
        ELSE 0

\* outlier_cols: the numeric columns with at least one outlier, with their counts
outlier_cols_of(t) ==
    LET ncols == IF Len(t) = 0 THEN 0 ELSE Len(t[1])
        listed == {c \in 1..ncols :
                      is_numeric(Column(t, c)) /\ outlier_count(Column(t, c)) > 0}
    IN  [c \in listed |-> outlier_count(Column(t, c))]

----------------------------------------------------------------------------
(* The floating-point arithmetic of line 123.  A double is the record       *)
(* [mant, exp] of value mant * 2^(-exp); mant is a natural number written   *)
(* as its binary digits, least significant first, 53 of them after a        *)
(* rounding.  Products and quotients are formed exactly, in limbs of         *)
(* LimbBits binary digits, and then rounded once, as the hardware does.     *)
(* Row counts are below 2^21.                                               *)

LimbBits == 10
LimbBase == 2^LimbBits
\* Limbs of the fraction of a quotient: more binary digits than a double keeps
FracLimbCount == 6
MantissaBits == 53

Reverse(b) == [i \in 1..Len(b) |-> b[Len(b) + 1 - i]]

\* The natural number of the binary digits b (one limb, or a small number)
RECURSIVE FromBits(_)
FromBits(b) == IF b = <<>> THEN 0 ELSE Head(b) + 2 * FromBits(Tail(b))

\* The binary digits of the limbs L, and the limbs of the binary digits b
BitsOf(L) ==
    [j \in 1..(LimbBits * Len(L)) |->
        (L[(j - 1) \div LimbBits + 1] \div 2^((j - 1) % LimbBits)) % 2]

LimbsOf(b) ==
    [i \in 1..((Len(b) + LimbBits - 1) \div LimbBits) |->
        FromBits(SubSeq(b, LimbBits * (i - 1) + 1, Min(LimbBits * i, Len(b))))]

\* b without its leading zeros
Trim(b) ==
    IF \A i \in 1..Len(b) : b[i] = 0 THEN <<>>
    ELSE SubSeq(b, 1, CHOOSE i \in 1..Len(b) :
                          b[i] = 1 /\ \A j \in (i + 1)..Len(b) : b[j] = 0)

\* L * c + carry, in limbs, for a multiplier c below LimbBase
RECURSIVE MulLimbs(_, _, _)
MulLimbs(L, c, carry) ==
    IF L = <<>>
    THEN IF carry = 0 THEN <<>> ELSE <<carry>>
    ELSE <<(Head(L) * c + carry) % LimbBase>>
             \o MulLimbs(Tail(L), c, (Head(L) * c + carry) \div LimbBase)

\* b * c, in binary digits
MulBits(b, c) == Trim(BitsOf(MulLimbs(LimbsOf(b), c, 0)))

\* b + 1
Inc(b) ==
    IF \A i \in 1..Len(b) : b[i] = 1
    THEN [i \in 1..(Len(b) + 1) |-> IF i = Len(b) + 1 THEN 1 ELSE 0]
    ELSE LET z == CHOOSE i \in 1..Len(b) : b[i] = 0 /\ \A j \in 1..(i - 1) : b[j] = 1
         IN  [i \in 1..Len(b) |-> IF i < z THEN 0 ELSE IF i = z THEN 1 ELSE b[i]]

\* The first n limbs of the fraction r/t (r < t), most significant first, and
\* the remainder left after them
RECURSIVE FracLimbs(_, _, _)
FracLimbs(r, t, n) ==
    IF n = 0 THEN <<>>
    ELSE <<(r * LimbBase) \div t>> \o FracLimbs((r * LimbBase) % t, t, n - 1)

RECURSIVE FracRem(_, _, _)
FracRem(r, t, n) ==
    IF n = 0 THEN r ELSE FracRem((r * LimbBase) % t, t, n - 1)

\* Smallest e with u * 2^e >= t (0 < u <= t)
ScaleExp(u, t) ==
    CHOOSE e \in 0..(2 * LimbBits + 1) :
        u * 2^e >= t /\ \A f \in 0..(e - 1) : u * 2^f < t

\* The digits b without their drop lowest ones, rounded to nearest, ties to
\* even; inexact: b itself was cut from a longer number
RoundBits(b, drop, inexact) ==
    IF drop <= 0 THEN b
    ELSE LET kept == SubSeq(b, drop + 1, Len(b))
             guard == drop <= Len(b) /\ b[drop] = 1
             sticky == inexact \/ \E i \in 1..Min(drop - 1, Len(b)) : b[i] = 1
             odd == kept # <<>> /\ kept[1] = 1
         IN  IF guard /\ (sticky \/ odd) THEN Inc(kept) ELSE kept

\* unique_rows / total_rows: the double nearest to the quotient u/t of two
\* integers, 0 <= u <= t
true_divide(u, t) ==
    IF u = 0 THEN [mant |-> <<>>, exp |-> 0]
    ELSE LET e == ScaleExp(u, t)
             s == u * 2^e
             quot == BitsOf(Reverse(FracLimbs(s - t, t, FracLimbCount))) \o <<1>>
             inexact == FracRem(s - t, t, FracLimbCount) # 0
         IN  [mant |-> RoundBits(quot, Len(quot) - MantissaBits, inexact),
              exp |-> e + MantissaBits - 1]

\* x * 100: the double nearest to the product
times100(x) ==
    LET P == MulBits(x.mant, 100)
        drop == Len(P) - MantissaBits
    IN  IF drop <= 0 THEN [mant |-> P, exp |-> x.exp]
        ELSE [mant |-> RoundBits(P, drop, FALSE), exp |-> x.exp - drop]

\* round(y, 2), in hundredths: the integer nearest to 100 * y, ties to even
round2(y) == FromBits(RoundBits(MulBits(y.mant, 100), y.exp, FALSE))

\* Variant: the ratio is cut to 2 decimal places instead of rounded
worthy_ratio_floor(unique_rows, total_rows) ==
    IF total_rows > 0 THEN (unique_rows * 10000) \div total_rows ELSE 0

\* worthy_ratio = round((unique_rows / total_rows) * 100, 2) if total_rows > 0
\* else 0, in hundredths of a percent
worthy_ratio_of(unique_rows, total_rows) ==
    IF total_rows > 0
    THEN round2(times100(true_divide(unique_rows, total_rows)))
    ELSE 0

----------------------------------------------------------------------------
(* Files, paths and the clock *)

\* Cells of the input tables
Cells == {Null, IntCell(1), IntCell(2)}

\* Cells of the tables of the runs that vary the place or are repeated
FewCells == {Null, IntCell(1)}

\* Cells of the single-column tables of the outlier census
ColumnCells == {Null, IntCell(0), IntCell(1), IntCell(100), TextCell}

\* The input file: missing path, file that cannot be opened, empty file,
\* structurally malformed file, UTF-8 text, or bytes that are not UTF-8
\* (parsable as Latin-1 or not)
InputFiles(tables) ==
    {[kind |-> k, table |-> <<>>] :
        k \in {"missing", "unreadable", "empty", "malformed", "latin1_bad"}}
        \cup {[kind |-> k, table |-> t] : k \in {"utf8", "latin1"}, t \in tables}

\* pd.read_csv(file_path, encoding=...): the table, or the exception raised;
\* names_path: the text of the exception holds the path (an OSError does)
read_csv(f, encoding) ==
    CASE f.kind = "empty" ->
            [raised |-> "EmptyDataError", table |-> <<>>, names_path |-> FALSE]
      [] f.kind = "malformed" ->
            [raised |-> "ParserError", table |-> <<>>, names_path |-> FALSE]
      [] f.kind = "utf8" -> [raised |-> "", table |-> f.table, names_path |-> FALSE]
      [] f.kind = "latin1" ->
            IF encoding = "utf-8"
            THEN [raised |-> "UnicodeDecodeError", table |-> <<>>, names_path |-> FALSE]
            ELSE [raised |-> "", table |-> f.table, names_path |-> FALSE]
      [] f.kind = "latin1_bad" ->
            IF encoding = "utf-8"
            THEN [raised |-> "UnicodeDecodeError", table |-> <<>>, names_path |-> FALSE]
            ELSE [raised |-> "ParserError", table |-> <<>>, names_path |-> FALSE]
      [] f.kind = "unreadable" ->
            [raised |-> "PermissionError", table |-> <<>>, names_path |-> TRUE]
      [] OTHER -> [raised |-> "FileNotFoundError", table |-> <<>>, names_path |-> TRUE]

\* A file that does not exist, and an existing file with its content (lines)
NoFile == [exists |-> FALSE, content |-> <<>>]
FileOf(content) == [exists |-> TRUE, content |-> content]

\* Number of columns of the loaded table
total_cols_of(t) == IF Len(t) = 0 THEN 0 ELSE Len(t[1])

\* DataFrame.to_csv(path, index=False): the header line, then one line per row
to_csv(t, ncols) == <<[c \in 1..ncols |-> [kind |-> "name", val |-> c]]>> \o t

\* What is left of content in a file opened with mode "w" (truncated) when the
\* write fails after k of its lines
Truncated(content, k) == SubSeq(content, 1, k)

\* Variant: the file is opened with mode "a"
write_file_append(old, content) == FileOf(old.content \o content)

\* A completed write with mode "w" of content over the file old
write_file(old, content) == FileOf(content)

\* datetime.now().strftime("%Y-%m-%d_%H-%M-%S"): the clock, whole seconds only
timestamp_of(t) == t \div TicksPerSecond

----------------------------------------------------------------------------
(* Characters, texts and output streams.  A text is known by the classes of *)
(* the characters it holds; the classes divide the code points by what the  *)
(* encodings of the output stream take and by what repr does with them.     *)

\* ascii: U+0000-007F; latin: printable, U+00A1-00FF (e-acute); nbsp: not
\* printable, U+0080-00A0; wide: printable, above U+00FF (U+2500, U+2013);
\* hidden: not printable, above U+00FF (U+200B); surrogate: U+DC80-DCFF, left
\* in a path by the decoding of a file name that is not valid UTF-8
CharClasses == {"ascii", "latin", "nbsp", "wide", "hidden", "surrogate"}

Ascii == {"ascii"}

\* Classes that repr leaves as they are; it writes every other character as
\* an ASCII escape
Printable == {"ascii", "latin", "wide"}

\* Classes of the characters of repr(text), quotes included: the text of an
\* OSError names its file this way
repr_chars_of(chars) == (chars \cap Printable) \cup Ascii

\* The characters an encoding has
Repertoire(encoding) ==
    CASE encoding = "utf-8" -> CharClasses \ {"surrogate"}
      [] encoding = "latin-1" -> {"ascii", "latin", "nbsp"}
      [] OTHER -> Ascii

\* An output stream: its encoding and its error handler
Stream(encoding, errors) == [encoding |-> encoding, errors |-> errors]

\* open(report_path, "w", encoding='utf-8'): the handler is strict
Utf8Strict == Stream("utf-8", "strict")

\* Whether the stream encodes a text of these characters, or raises
\* UnicodeEncodeError: strict takes the repertoire only, surrogateescape also
\* the lone surrogates, replace anything
encodes(stream, chars) ==
    CASE stream.errors = "strict" -> chars \subseteq Repertoire(stream.encoding)
      [] stream.errors = "surrogateescape" ->
            chars \subseteq (Repertoire(stream.encoding) \cup {"surrogate"})
      [] OTHER -> TRUE

\* A directory: which one, the characters of its path, whether it exists
Dir(id, chars, exists) == [id |-> id, chars |-> chars, exists |-> exists]

\* The empty string: os.path.dirname(file_path) of a bare file name
NoDir == Dir("", {}, TRUE)

\* Classes of the characters of os.path.join(dir, name)
join_chars(dir, name) ==
    IF dir = NoDir THEN name ELSE dir.chars \cup Ascii \cup name

\* Line 79: os.path.basename(file_path), the stem and the suffix (what
\* follows the last dot, the dot included; empty when the name has no dot)
file_name_of(path) == path.stem \cup path.suffix

\* Classes of the characters of str(file_path): a directory part, possibly
\* empty, and the file name
path_chars_of(path) == join_chars(path.dir, file_name_of(path))

\* Classes of the characters of the names of lines 135 and 151, made of
\* Path(file_name).stem (line 134: the file name without its suffix) and of
\* ASCII text
derived_name_of(path) == path.stem \cup Ascii

\* The text of the exception of a failed read: with or without the path
text_chars_of(names_path, path) ==
    IF names_path THEN repr_chars_of(path_chars_of(path)) ELSE Ascii

\* Lines 130-131: output_dir when given, else the directory part of file_path,
\* else (bare file name) the working directory
target_dir_of(arg, path, workdir) ==
    IF arg # <<>> THEN arg[1]
    ELSE IF path.dir # NoDir THEN path.dir
    ELSE workdir

\* Classes of the characters of the report block: lines 194-196 hold U+2500
\* and U+2013, line 197 the file name, lines 212-213 the report path and the
\* cleaned path under the output directory.  The column names of lines
\* 201-204 were decoded by read_csv and hold no lone surrogate.
block_chars_of(path, out) ==
    {"ascii", "wide"} \cup file_name_of(path) \cup join_chars(out, derived_name_of(path))

\* A path of an output file, and a value that stands where a path could
PathOf(name, dir, timestamp) == [name |-> name, dir |-> dir, timestamp |-> timestamp]
Status(text) == PathOf(text, NoDir, 0)

\* Variant: the report name carries no timestamp
report_path_without_timestamp(dir, timestamp) == PathOf("clean_report_stem", dir, 0)

\* os.path.join(output_dir, f"clean_report_{base_name}_{timestamp}.txt")
report_path_of(dir, timestamp) == PathOf("clean_report_stem", dir, timestamp)

\* os.path.join(output_dir, f"{base_name}_cleaned.csv")
cleaned_path_of(dir) == PathOf("stem_cleaned.csv", dir, 0)

\* Return values that are not a path: None, and an exception leaving the call
None == Status("None")
Raised == Status("raised")

MaxTicks == MaxSeconds * TicksPerSecond - 1
Timestamps == 0..(MaxSeconds - 1)

NoStats == [total_rows |-> 0, duplicate_count |-> 0, outlier_cols |-> <<>>,
            unique_rows |-> 0, worthy_ratio |-> 0, cleaned_rows |-> 0]
NoOutcome == [cleaned |-> "none", report |-> "none"]

\* The value of the report line with the given label
Entry(lines, label) ==
    (CHOOSE e \in Range(lines) : e.label = label).value

Has(evs, e) == \E i \in 1..Len(evs) : evs[i] = e

\* Position of the first occurrence of e in evs (0: none)
IndexOf(evs, e) ==
    IF Has(evs, e) THEN CHOOSE i \in 1..Len(evs) :
                            evs[i] = e /\ \A j \in 1..(i - 1) : evs[j] # e
    ELSE 0

----------------------------------------------------------------------------
(* Inputs: the file, its path, the directories, the output stream *)

\* Directories: that of the input file, the working directory, and another
\* one that a caller may pass as output_dir (existing or not)
DataDir(chars) == Dir("data", chars, TRUE)
WorkDir(chars) == Dir("cwd", chars, TRUE)
OtherDir(chars, exists) == Dir("out", chars, exists)

\* Characters of the names of files and directories.  A file name is a stem
\* and a suffix: characters outside ASCII stand in the stem, before the
\* suffix .csv, or in the suffix alone
StemChars ==
    {Ascii \cup s : s \in {{}, {"latin"}, {"nbsp"}, {"wide"}, {"hidden"},
                           {"surrogate"}, {"latin", "surrogate"}}}
SuffixChars == {Ascii \cup s : s \in {{"latin"}, {"wide"}, {"surrogate"}}}
Name(stem, suffix) == [stem |-> stem, suffix |-> suffix]
Names == {Name(c, Ascii) : c \in StemChars} \cup {Name(Ascii, c) : c \in SuffixChars}
DirChars == {Ascii, {"ascii", "latin"}, {"ascii", "surrogate"}}
OtherDirs == {OtherDir(Ascii, TRUE), OtherDir({"ascii", "latin"}, TRUE),
              OtherDir({"ascii", "nbsp"}, FALSE)}

\* Output streams of the process
Streams ==
    {Stream(e, h) : e \in {"utf-8", "ascii", "latin-1"},
                    h \in {"strict", "surrogateescape", "replace"}}

\* The file_path of the file named n in the directory d (NoDir: a bare name)
PathIn(d, n) == [dir |-> d, stem |-> n.stem, suffix |-> n.suffix]

\* Where the file is and how it is named: a path with a directory part, run
\* from an ASCII working directory, or a bare name in the working directory
Places ==
    {[file_path |-> PathIn(DataDir(d), n), cwd |-> WorkDir(Ascii)] :
        d \in DirChars, n \in Names}
    \cup {[file_path |-> PathIn(NoDir, n), cwd |-> WorkDir(d)] :
        d \in DirChars, n \in Names}

PlainPlace == [file_path |-> PathIn(DataDir(Ascii), Name(Ascii, Ascii)),
               cwd |-> WorkDir(Ascii)]

\* Places and streams of the inputs that are run more than once
FewPlaces ==
    {[file_path |-> PathIn(DataDir(Ascii), Name(c, Ascii)), cwd |-> WorkDir(Ascii)] :
        c \in {{"ascii", "latin"}, {"ascii", "surrogate"}}}
FewStreams == {Stream("utf-8", "strict"), Stream("ascii", "strict"),
               Stream("utf-8", "surrogateescape")}

Input(f, place, others, stream, n) ==
    [file |-> f, file_path |-> place.file_path, cwd |-> place.cwd,
     other_dirs |-> others, stdout |-> stream, invocations |-> n]

\* The tables vary in a plain place on a UTF-8 stream (VariedInputs, and
\* RepeatedInputs where the tool is run MaxRuns times); the place and the
\* stream vary on the smallest tables, without a directory to pass
\* (PlacedInputs), with one (DirectedInputs), and on repeated runs
\* (RepeatedPlacedInputs).
VariedInputs ==
    {Input(f, PlainPlace, {OtherDir(Ascii, TRUE)}, Utf8Strict, 1) :
        f \in InputFiles(Tables(Cells, MaxCols, MaxRows))}

RepeatedInputs ==
    {Input(f, PlainPlace, {OtherDir(Ascii, TRUE)}, Utf8Strict, MaxRuns) :
        f \in InputFiles(Tables(FewCells, MaxCols, MaxRows - 1))}

PlacedInputs ==
    {Input(f, p, {}, s, 1) :
        f \in InputFiles(Tables(FewCells, MaxCols, PlacedRows)),
        p \in Places, s \in Streams}

DirectedInputs ==
    {Input(f, [PlainPlace EXCEPT !.file_path = PathIn(DataDir(Ascii), n)], {d}, s, 1) :
        f \in InputFiles(Tables(FewCells, MaxCols, PlacedRows)),
        n \in Names, d \in OtherDirs, s \in Streams}

RepeatedPlacedInputs ==
    {Input(f, p, {d}, s, MaxRuns) :
        f \in InputFiles(Tables(FewCells, MaxCols, PlacedRows)),
        p \in FewPlaces, d \in {OtherDir({"ascii", "latin"}, TRUE)}, s \in FewStreams}

Inputs == VariedInputs \cup RepeatedInputs \cup PlacedInputs \cup DirectedInputs \cup RepeatedPlacedInputs

----------------------------------------------------------------------------
(* The state machine *)

env == <<file, file_path, cwd, other_dirs, stdout, invocations>>
locals == <<df, stats, cleaned_df, cleaned_file_path, report_path, report_lines>>
disk == <<cleaned_file, report_files>>

\* The directories of a run: that of the file, the working directory, those
\* that a caller passes
directories == ({file_path.dir, cwd} \cup other_dirs) \ {NoDir}

NoDisk == [cleaned_file |-> [d \in directories |-> NoFile],
           report_files |-> [d \in directories |-> [t \in Timestamps |-> NoFile]],
           output_dir |-> <<>>]

\* No call made yet, nothing on disk
Fresh ==
    /\ autoclean = TRUE
    /\ output_dir = <<>>
    /\ now = 0
    /\ df = <<>>
    /\ cleaned_df = <<>>
    /\ cleaned_file_path = Status("")
    /\ report_path = None
    /\ report_lines = <<>>
    /\ cleaned_file = NoDisk.cleaned_file
    /\ report_files = NoDisk.report_files
    /\ events = <<>>
    /\ outcome = NoOutcome
    /\ before = NoDisk
    /\ ret = None
    /\ runs = <<>>

InitWith(i) ==
    /\ file = i.file
    /\ file_path = i.file_path
    /\ cwd = i.cwd
    /\ other_dirs = i.other_dirs
    /\ stdout = i.stdout
    /\ invocations = i.invocations

Init ==
    /\ \E i \in Inputs : InitWith(i)
    /\ pc = "idle"
    /\ stats = NoStats
    /\ Fresh

\* The clock advances.  analyze_file reads it once, at line 150; the time that
\* passes inside a call is counted with the time that passes before it, and
\* the clock is followed as long as a call is still to come.
Tick ==
    /\ pc = "idle"
    /\ Len(runs) < invocations
    /\ now < MaxTicks
    /\ now' = now + 1
    /\ UNCHANGED <<env, autoclean, output_dir, pc, locals, disk, events, outcome,
                   before, ret, runs>>

\* analyze_file(file_path, autoclean, output_dir) is called: output_dir is
\* None (the empty sequence) or a directory
Call(a, o) ==
    /\ pc = "idle"
    /\ Len(runs) < invocations
    /\ autoclean' = a
    /\ output_dir' = o
    /\ pc' = "load"
    /\ df' = <<>>
    /\ stats' = NoStats
    /\ cleaned_df' = <<>>
    /\ cleaned_file_path' = Status("")
    /\ report_path' = None
    /\ report_lines' = <<>>
    /\ events' = <<>>
    /\ outcome' = NoOutcome
    /\ before' = [cleaned_file |-> cleaned_file, report_files |-> report_files,
                  output_dir |-> o]
    /\ UNCHANGED <<env, now, disk, ret, runs>>

\* The call ends with value: the run is recorded
Return(value, loaded) ==
    /\ pc' = "idle"
    /\ ret' = value
    /\ runs' = Append(runs,
            [autoclean |-> autoclean, output_dir |-> output_dir',
             loaded |-> loaded, clock |-> now,
             stats |-> stats, cleaned_df |-> cleaned_df,
             cleaned_file_path |-> cleaned_file_path',
             report_path |-> report_path, report_lines |-> report_lines,
             events |-> events', outcome |-> outcome', before |-> before,
             cleaned_file |-> cleaned_file', report_files |-> report_files',
             ret |-> value])

\* Lines 57-59, 68-76, 83-85: after what was printed before, the error msg is
\* printed and None returned; a print that cannot encode its text (chars)
\* raises UnicodeEncodeError out of the call with nothing printed
LoadFails(printed, msg, chars) ==
    /\ UNCHANGED <<env, autoclean, output_dir, now, locals, disk, outcome, before>>
    /\ IF encodes(stdout, chars)
       THEN /\ events' = events \o printed \o <<msg>>
            /\ Return(None, FALSE)
       ELSE /\ events' = events \o printed
            /\ Return(Raised, FALSE)

\* Lines 78-85: the table is kept unless it has no row; what lines 61-67
\* printed (evs) stays printed either way
LoadDone(t, evs) ==
    IF Len(t) = 0
    THEN LoadFails(evs, "Error: CSV file contains no data rows", Ascii)
    ELSE /\ df' = t
         /\ events' = events \o evs
         /\ pc' = "profile"
         /\ UNCHANGED <<env, autoclean, output_dir, now, stats, cleaned_df,
                        cleaned_file_path, report_path, report_lines, disk,
                        outcome, before, ret, runs>>

\* Lines 57-85: the path check, the two decoding attempts, the empty-table
\* check.  Line 58 prints file_path as it is, lines 69 and 75 the text of the
\* exception.
Load ==
    /\ pc = "load"
    /\ IF file.kind = "missing"
       THEN LoadFails(<<>>, "Error: Invalid file path",
                      Ascii \cup path_chars_of(file_path))
       ELSE LET first == read_csv(file, "utf-8")
                second == read_csv(file, "latin-1")
            IN  CASE first.raised = "" -> LoadDone(first.table, <<>>)
                  [] first.raised = "UnicodeDecodeError" ->
                        IF second.raised = ""
                        THEN LoadDone(second.table,
                                      <<"Warning: File read using latin-1 encoding">>)
                        ELSE LoadFails(<<>>, "Error reading CSV file",
                                       text_chars_of(second.names_path, file_path))
                  [] first.raised = "EmptyDataError" ->
                        LoadFails(<<>>, "Error: CSV file is empty", Ascii)
                  [] OTHER -> LoadFails(<<>>, "Error reading CSV file",
                                        text_chars_of(first.names_path, file_path))

\* Lines 81-122: the row count, the censuses and the unique-row count
Profile ==
    /\ pc = "profile"
    /\ stats' = [stats EXCEPT !.total_rows = Len(df),
                              !.duplicate_count = Cardinality(duplicated(df)),
                              !.outlier_cols = outlier_cols_of(df),
                              !.unique_rows = Len(drop_duplicates(df))]
    /\ pc' = "ratio"
    /\ UNCHANGED <<env, autoclean, output_dir, now, df, cleaned_df, cleaned_file_path,
                   report_path, report_lines, disk, events, outcome, before, ret, runs>>

\* Line 123: the worthy-data ratio
Ratio ==
    /\ pc = "ratio"
    /\ stats' = [stats EXCEPT
                    !.worthy_ratio = worthy_ratio_of(stats.unique_rows, stats.total_rows)]
    /\ pc' = "clean"
    /\ UNCHANGED <<env, autoclean, output_dir, now, df, cleaned_df, cleaned_file_path,
                   report_path, report_lines, disk, events, outcome, before, ret, runs>>

\* Lines 125-127: the cleaned table
Clean ==
    /\ pc = "clean"
    /\ cleaned_df' = clean(df)
    /\ stats' = [stats EXCEPT !.cleaned_rows = Len(clean(df))]
    /\ pc' = "save_cleaned"
    /\ UNCHANGED <<env, autoclean, output_dir, now, df, cleaned_file_path, report_path,
                   report_lines, disk, events, outcome, before, ret, runs>>

\* Lines 139-143: to_csv into the directory out succeeds, or raises and the
\* exception is caught.  The text of the exception names the cleaned path when
\* the file could not be opened and the directory (as it is, without repr)
\* when to_csv found that it does not exist; it names no path when the write
\* failed after the open.  The print of line 142 stands in the handler: when
\* the output stream cannot encode the text it raises UnicodeEncodeError out
\* of the call, before the placeholder of line 143 is set.
WriteCleaned(out) ==
    LET content == to_csv(cleaned_df, total_cols_of(df))
        path == join_chars(out, derived_name_of(file_path))
        failed(f, chars) ==
            /\ cleaned_file' = [cleaned_file EXCEPT ![out] = f]
            /\ outcome' = [outcome EXCEPT !.cleaned = "failed"]
            /\ IF encodes(stdout, chars)
               THEN /\ cleaned_file_path' = Status("Not saved (error occurred)")
                    /\ events' = events \o <<"to_csv", "Warning: Could not save cleaned file">>
                    /\ pc' = "report"
                    /\ UNCHANGED <<ret, runs>>
               ELSE /\ cleaned_file_path' = cleaned_path_of(out)
                    /\ events' = events \o <<"to_csv">>
                    /\ Return(Raised, TRUE)
    IN  IF ~out.exists
        THEN failed(cleaned_file[out], Ascii \cup out.chars)
        ELSE \/ /\ cleaned_file' =
                      [cleaned_file EXCEPT ![out] = write_file(cleaned_file[out], content)]
                /\ cleaned_file_path' = cleaned_path_of(out)
                /\ events' = events \o <<"to_csv">>
                /\ outcome' = [outcome EXCEPT !.cleaned = "ok"]
                /\ pc' = "report"
                /\ UNCHANGED <<ret, runs>>
             \/ \* the file cannot be opened: nothing on disk changes
                failed(cleaned_file[out], repr_chars_of(path))
             \/ \* the write fails after the file was opened and truncated
                \E k \in 0..(Len(content) - 1) :
                    failed(FileOf(Truncated(content, k)), Ascii)

\* Lines 144-147: no write, a placeholder status
NotSaved ==
    /\ cleaned_file_path' = IF stats.cleaned_rows = 0
                            THEN Status("Not saved (no data after cleaning)")
                            ELSE Status("Skipped")
    /\ pc' = "report"
    /\ UNCHANGED <<cleaned_file, events, outcome, ret, runs>>

\* Variant: line 138 tests autoclean alone
SaveCleanedNoRowCheck ==
    /\ pc = "save_cleaned"
    /\ output_dir' = <<target_dir_of(output_dir, file_path, cwd)>>
    /\ UNCHANGED <<env, autoclean, now, df, stats, cleaned_df, report_path,
                   report_lines, report_files, before>>
    /\ IF autoclean
       THEN WriteCleaned(target_dir_of(output_dir, file_path, cwd))
       ELSE NotSaved

\* Lines 129-147: the output directory is settled, then the cleaned table is
\* written into it, or a placeholder status is kept
SaveCleaned ==
    /\ pc = "save_cleaned"
    /\ output_dir' = <<target_dir_of(output_dir, file_path, cwd)>>
    /\ UNCHANGED <<env, autoclean, now, df, stats, cleaned_df, report_path,
                   report_lines, report_files, before>>
    /\ IF autoclean /\ stats.cleaned_rows > 0
       THEN WriteCleaned(target_dir_of(output_dir, file_path, cwd))
       ELSE NotSaved

\* Lines 149-215: the report path is derived from the output directory and
\* the clock, the block is built
GenerateReport ==
    /\ pc = "report"
    /\ LET path == report_path_of(output_dir[1], timestamp_of(now))
       IN  /\ report_path' = path
           /\ report_lines' =
                <<[label |-> "Total rows", value |-> stats.total_rows],
                  [label |-> "Duplicate Entries", value |-> stats.duplicate_count],
                  [label |-> "Outliers Detected", value |-> stats.outlier_cols],
                  [label |-> "Unique rows retained", value |-> stats.unique_rows],
                  [label |-> "Rows after cleaning", value |-> stats.cleaned_rows],
                  [label |-> "Worthy data ratio", value |-> stats.worthy_ratio],
                  [label |-> "Report saved as", value |-> path],
                  [label |-> "Cleaned dataset", value |-> cleaned_file_path]>>
    /\ pc' = "save_report"
    /\ UNCHANGED <<env, autoclean, output_dir, now, df, stats, cleaned_df,
                   cleaned_file_path, disk, events, outcome, before, ret, runs>>

\* Lines 217-225: the report is written in UTF-8 (or the exception caught and
\* a warning printed), then the block is echoed and the report path returned.
\* A block that holds a lone surrogate cannot be encoded: f.write raises
\* before a byte is written and leaves the opened file empty.  The text of a
\* failed open names the report path.  The prints of lines 222 and 224 are in
\* no try: when the output stream cannot encode their text they raise
\* UnicodeEncodeError out of the call.
SaveReport ==
    /\ pc = "save_report"
    /\ UNCHANGED <<env, autoclean, output_dir, now, locals, cleaned_file, before>>
    /\ LET out == output_dir[1]
           t == report_path.timestamp
           old == report_files[out][t]
           block == block_chars_of(file_path, out)
           path == join_chars(out, derived_name_of(file_path))
           Echo(evs) ==
               IF encodes(stdout, block)
               THEN /\ events' = evs \o <<"print(report)">>
                    /\ Return(report_path, TRUE)
               ELSE /\ events' = evs
                    /\ Return(Raised, TRUE)
           failed(f, chars) ==
               /\ report_files' = [report_files EXCEPT ![out][t] = f]
               /\ outcome' = [outcome EXCEPT !.report = "failed"]
               /\ IF encodes(stdout, chars)
                  THEN Echo(events \o <<"write", "Warning: Could not save report file">>)
                  ELSE /\ events' = events \o <<"write">>
                       /\ Return(Raised, TRUE)
       IN  \/ /\ out.exists
              /\ encodes(Utf8Strict, block)
              /\ report_files' =
                    [report_files EXCEPT ![out][t] = write_file(old, report_lines)]
              /\ outcome' = [outcome EXCEPT !.report = "ok"]
              /\ Echo(events \o <<"write">>)
           \/ \* the file cannot be opened (always so in a directory that does
              \* not exist): nothing on disk changes
              failed(old, repr_chars_of(path))
           \/ \* the write fails after the file was opened and truncated
              /\ out.exists
              /\ encodes(Utf8Strict, block)
              /\ \E k \in 0..(Len(report_lines) - 1) :
                     failed(FileOf(Truncated(report_lines, k)), Ascii)
           \/ \* the block cannot be encoded: the opened file is left empty
              /\ out.exists
              /\ ~encodes(Utf8Strict, block)
              /\ failed(FileOf(<<>>), Ascii)

\* The values a caller passes as output_dir
OutputArgs == {<<>>} \cup {<<d>> : d \in other_dirs}

Next ==
    \/ Tick
    \/ \E a \in BOOLEAN, o \in OutputArgs : Call(a, o)
    \/ Load
    \/ Profile
    \/ Ratio
    \/ Clean
    \/ SaveCleaned
    \/ GenerateReport
    \/ SaveReport

Spec == Init /\ [][Next]_vars

----------------------------------------------------------------------------
(* The profiling steps alone, on larger tables *)

ProfileFiles ==
    {[kind |-> "utf8", table |-> t] :
        t \in (TablesWithin(Cells, MaxCells) \cup Tables(ColumnCells, 1, MaxColumnLen))}

InitProfile ==
    /\ \E f \in ProfileFiles : InitWith(Input(f, PlainPlace, {}, Utf8Strict, MaxRuns))
    /\ pc = "idle"
    /\ stats = NoStats
    /\ Fresh

NextProfile ==
    \/ \E a \in BOOLEAN, o \in OutputArgs : Call(a, o)
    \/ Load
    \/ Profile
    \/ Ratio
    \/ Clean

SpecProfile == InitProfile /\ [][NextProfile]_vars

----------------------------------------------------------------------------
(* Line 123 alone, on the row counts of small and of large tables.  The state *)
(* is that of a call at line 123 for a table of total_rows rows of which      *)
(* unique_rows are distinct; the table itself, which line 123 does not read,  *)
(* is not carried.                                                            *)

RatioTotals == (1..SmallTotal) \cup (BigTotalLo..(BigTotalLo + BigTotalSpan))

InitRatio ==
    /\ InitWith(Input([kind |-> "utf8", table |-> <<>>], PlainPlace, {}, Utf8Strict, 1))
    /\ pc = "ratio"
    /\ \E total \in RatioTotals :
       \E dup \in 0..(IF total <= SmallTotal THEN total - 1 ELSE MaxDupRows) :
          stats = [NoStats EXCEPT !.total_rows = total,
                                  !.duplicate_count = dup,
                                  !.unique_rows = total - dup]
    /\ Fresh

SpecRatio == InitRatio /\ [][Ratio]_vars

----------------------------------------------------------------------------
(* Properties *)

\* Runs that passed loading, whether they returned or raised later
Completed == {i \in 1..Len(runs) : runs[i].loaded}

\* Runs that built their report path and report block (lines 150-215)
Reported == {i \in Completed : runs[i].report_lines # <<>>}

\* Rows of a table, as a set
RowSet(t) == {t[i] : i \in 1..Len(t)}

\* C1: once a loaded table is profiled and cleaned, cleaned_rows <= unique_rows
\* <= total_rows, where total_rows is the number of rows, unique_rows the
\* number of distinct rows (null equal to null) and cleaned_rows the number of
\* distinct rows that hold no null cell.
C1_RowCounts ==
    pc = "save_cleaned" =>
        /\ stats.cleaned_rows <= stats.unique_rows
        /\ stats.unique_rows <= stats.total_rows
        /\ stats.total_rows = Len(df)
        /\ stats.unique_rows = Cardinality(RowSet(df))
        /\ stats.cleaned_rows =
               Cardinality({r \in RowSet(df) : \A c \in 1..Len(r) : r[c] # Null})

C1_Witness ==
    /\ pc = "save_cleaned"
    /\ 0 < stats.cleaned_rows
    /\ stats.cleaned_rows < stats.unique_rows
    /\ stats.unique_rows < stats.total_rows

\* C2 as stated: for a non-empty table the worthy-data ratio lies in [0, 100]
\* and equals 100 if and only if the table has no duplicate rows.
C2_Original ==
    pc = "clean" =>
        /\ 0 <= stats.worthy_ratio /\ stats.worthy_ratio <= 10000
        /\ stats.worthy_ratio = 10000 <=> stats.duplicate_count = 0

\* C2 as amended: for a non-empty table the worthy-data ratio lies in [0, 100];
\* it equals 100 when the table has no duplicate rows and, by the rounding to
\* 2 decimal places, also when fewer than 1 row in 20000 is a duplicate; it is
\* below 100 when more than 1 row in 20000 is a duplicate.
C2_RatioRange ==
    pc = "clean" =>
        /\ 0 <= stats.worthy_ratio /\ stats.worthy_ratio <= 10000
        /\ stats.duplicate_count = 0 => stats.worthy_ratio = 10000
        /\ stats.duplicate_count * 20000 < stats.total_rows => stats.worthy_ratio = 10000
        /\ stats.duplicate_count * 20000 > stats.total_rows => stats.worthy_ratio < 10000

C2_Witness ==
    /\ pc = "clean"
    /\ stats.duplicate_count > 0
    /\ stats.worthy_ratio = 10000

\* The output directory of a run that reached line 131
out_of(r) == r.output_dir[1]

\* C3: in every run that passes loading both writes are attempted
\* independently: the cleaned-table write (when due) comes first, the report
\* write is attempted whatever became of it, the report is echoed and the run
\* returns normally, with the report path; every failed write leaves its
\* warning.
C3_WritesIndependent ==
    \A i \in Completed :
        LET r == runs[i]
        IN  /\ Has(r.events, "write")
            /\ r.outcome.report \in {"ok", "failed"}
            /\ Has(r.events, "print(report)")
            /\ r.ret = r.report_path /\ r.ret # None /\ r.ret # Raised
            /\ (r.autoclean /\ r.stats.cleaned_rows > 0) =>
                   /\ r.outcome.cleaned \in {"ok", "failed"}
                   /\ Has(r.events, "to_csv")
                   /\ IndexOf(r.events, "to_csv") < IndexOf(r.events, "write")
            /\ r.outcome.cleaned = "failed" =>
                   Has(r.events, "Warning: Could not save cleaned file")
            /\ r.outcome.report = "failed" =>
                   Has(r.events, "Warning: Could not save report file")

\* C4: when a write fails the result carries a placeholder in place of the
\* path of the artifact that was not written: after a failed cleaned-table
\* write the 'Cleaned dataset' entry is not the cleaned path, and after a
\* failed report write neither the 'Report saved as' entry nor the returned
\* value is the report path.
C4_Placeholders ==
    \A i \in Reported :
        LET r == runs[i]
        IN  /\ r.outcome.cleaned = "failed" =>
                   Entry(r.report_lines, "Cleaned dataset") # cleaned_path_of(out_of(r))
            /\ r.outcome.report = "failed" =>
                   /\ Entry(r.report_lines, "Report saved as") # r.report_path
                   /\ r.ret # r.report_path

\* The input cannot be loaded: path missing or invalid, file empty, parse or
\* decoding error after both attempts, header without data rows
FailsToLoad(f) ==
    \/ f.kind \in {"missing", "unreadable", "empty", "malformed", "latin1_bad"}
    \/ Len(f.table) = 0

IsError(msg) ==
    msg \in {"Error: Invalid file path", "Error: CSV file is empty",
             "Error reading CSV file", "Error: CSV file contains no data rows"}

\* C5: a run on an input that cannot be loaded ends in its loading step: it
\* returns None, prints an error message, attempts no write and leaves the
\* cleaned file and every report file as they were.
C5_LoadFailure ==
    [][(pc = "load" /\ FailsToLoad(file)) =>
          /\ pc' = "idle"
          /\ ret' = None
          /\ \E k \in 1..Len(events') : IsError(events'[k])
          /\ ~Has(events', "to_csv")
          /\ ~Has(events', "write")
          /\ cleaned_file' = cleaned_file
          /\ report_files' = report_files]_vars

\* What a run that passes loading does about the cleaned file, apart from the
\* two placeholder statuses: to_csv is called exactly when cleaning was
\* requested and the cleaned table has a row; without the call no cleaned
\* file of any directory changes; a call changes no cleaned file outside the
\* output directory of lines 130-131 and, when it succeeds, leaves there the
\* cleaned table under its header
CleanedWrittenOnlyWhenDue(r) ==
    /\ r.outcome.cleaned # "none" <=> (r.autoclean /\ r.stats.cleaned_rows > 0)
    /\ r.outcome.cleaned # "none" <=> Has(r.events, "to_csv")
    /\ out_of(r) = target_dir_of(r.before.output_dir, file_path, cwd)
    /\ r.outcome.cleaned = "none" =>
           /\ r.cleaned_file = r.before.cleaned_file
           /\ r.cleaned_file_path \in
                  {Status("Skipped"), Status("Not saved (no data after cleaning)")}
    /\ \A d \in DOMAIN r.cleaned_file :
           d # out_of(r) => r.cleaned_file[d] = r.before.cleaned_file[d]
    /\ r.outcome.cleaned = "ok" =>
           /\ r.cleaned_file_path = cleaned_path_of(out_of(r))
           /\ r.cleaned_file[out_of(r)] =
                  FileOf(to_csv(r.cleaned_df, total_cols_of(file.table)))

\* C6 as stated: the cleaned file is written only when cleaning was requested
\* and the cleaned table has a row; otherwise the status is 'Skipped' exactly
\* when cleaning was not requested and 'Not saved (no data after cleaning)'
\* exactly when it was requested and the cleaned table has no row.
C6_Original ==
    \A i \in Completed :
        LET r == runs[i]
        IN  /\ CleanedWrittenOnlyWhenDue(r)
            /\ r.cleaned_file_path = Status("Skipped") <=> ~r.autoclean
            /\ r.cleaned_file_path = Status("Not saved (no data after cleaning)")
                   <=> (r.autoclean /\ r.stats.cleaned_rows = 0)

\* C6 as amended: the cleaned file is written only when cleaning was requested
\* and the cleaned table has a row; otherwise the status is 'Not saved (no data
\* after cleaning)' exactly when the cleaned table has no row, requested or
\* not, and 'Skipped' exactly when cleaning was not requested and the cleaned
\* table has a row.
C6_CleanedStatus ==
    \A i \in Completed :
        LET r == runs[i]
        IN  /\ CleanedWrittenOnlyWhenDue(r)
            /\ r.cleaned_file_path = Status("Skipped")
                   <=> (~r.autoclean /\ r.stats.cleaned_rows > 0)
            /\ r.cleaned_file_path = Status("Not saved (no data after cleaning)")
                   <=> r.stats.cleaned_rows = 0

\* A run without cleaning, into a directory passed as output_dir, on a table
\* whose every row holds a null
C6_Witness ==
    \E i \in Completed :
        /\ ~runs[i].autoclean
        /\ runs[i].before.output_dir # <<>>
        /\ runs[i].stats.cleaned_rows = 0
        /\ runs[i].cleaned_file_path = Status("Not saved (no data after cleaning)")
        /\ runs[i].cleaned_file = runs[i].before.cleaned_file
        /\ runs[i].ret = report_path_of(runs[i].before.output_dir[1], timestamp_of(runs[i].clock))
\* The non-null values of a column
ValuesOf(col) == {col[i].val : i \in {k \in 1..Len(col) : ~isnull(col[k])}}

\* C7: a numeric column whose non-null values are all identical, whatever its
\* length and its number of nulls, is absent from the outlier listing.
C7_ConstantColumn ==
    pc \in {"ratio", "clean", "save_cleaned"} =>
        \A c \in 1..total_cols_of(df) :
            (is_numeric(Column(df, c)) /\ Cardinality(ValuesOf(Column(df, c))) <= 1)
                => c \notin DOMAIN stats.outlier_cols

C7_Witness ==
    /\ pc = "ratio"
    /\ Len(df) = MaxColumnLen
    /\ is_numeric(Column(df, 1))
    /\ ValuesOf(Column(df, 1)) = {100}
    /\ Cardinality({i \in 1..Len(df) : isnull(df[i][1])}) = 2
    /\ stats.outlier_cols = <<>>

\* The second of the clock that stamps the report of a run
second_of(r) == timestamp_of(r.clock)

\* C8 as stated: any two completed runs on the same input file and into the
\* same target directory produce two distinct report paths.
C8_Original ==
    \A i, j \in Reported :
        (i < j /\ out_of(runs[i]) = out_of(runs[j]))
            => runs[i].report_path # runs[j].report_path

\* C8 as amended: a completed run whose report write succeeds leaves its
\* report in the file of its target directory stamped with the second of its
\* clock; and of two completed runs on the same input file and into the same
\* target directory, (a) when their reports are stamped in different seconds
\* the report paths are distinct and the later run leaves the report file of
\* the earlier one as it found it; (b) when they are stamped in the same
\* second the report paths are the same, and the report write of the later
\* run, when it succeeds, leaves its own report in the file of the earlier
\* one, and when it fails leaves there what it found or a truncated part of
\* its own report.
C8_DistinctSeconds ==
    /\ \A i \in Reported :
           runs[i].outcome.report = "ok" =>
               runs[i].report_files[out_of(runs[i])][second_of(runs[i])]
                   = FileOf(runs[i].report_lines)
    /\ \A i, j \in Reported :
           (i < j /\ out_of(runs[i]) = out_of(runs[j])) =>
               LET d == out_of(runs[i])
                   s == second_of(runs[i])
                   found == runs[j].before.report_files[d][s]
                   left == runs[j].report_files[d][s]
               IN  IF s # second_of(runs[j])
                   THEN /\ runs[i].report_path # runs[j].report_path
                        /\ left = found
                   ELSE /\ runs[i].report_path = runs[j].report_path
                        /\ runs[j].outcome.report = "ok" =>
                               left = FileOf(runs[j].report_lines)
                        /\ runs[j].outcome.report = "failed" =>
                               \/ left = found
                               \/ \E k \in 0..(Len(runs[j].report_lines) - 1) :
                                      left = FileOf(Truncated(runs[j].report_lines, k))

\* Two runs into a directory passed as output_dir, in different seconds, both
\* reports written and both on disk
C8_Witness ==
    \E i, j \in Reported :
        /\ i < j
        /\ runs[i].before.output_dir # <<>>
        /\ out_of(runs[i]) = out_of(runs[j])
        /\ second_of(runs[i]) # second_of(runs[j])
        /\ runs[i].outcome.report = "ok"
        /\ runs[j].outcome.report = "ok"
        /\ report_files[out_of(runs[i])][second_of(runs[i])] = FileOf(runs[i].report_lines)
        /\ report_files[out_of(runs[j])][second_of(runs[j])] = FileOf(runs[j].report_lines)

\* Position of the first row of t equal to row
FirstIndex(t, row) == CHOOSE i \in 1..Len(t) : t[i] = row /\ \A k \in 1..(i - 1) : t[k] # row

\* s holds the rows of t that have no null cell, each once, in the order of
\* their first occurrence in t
IsCleanedOf(s, t) ==
    /\ RowSet(s) = {row \in RowSet(t) : \A c \in 1..Len(row) : ~isnull(row[c])}
    /\ \A i, j \in 1..Len(s) :
           i < j => FirstIndex(t, s[i]) < FirstIndex(t, s[j])

C10_AllOrNothing ==
    \A d \in DOMAIN cleaned_file :
        /\ (\E i \in Completed : runs[i].outcome.cleaned = "ok" /\ out_of(runs[i]) = d) =>
               cleaned_file[d] \in
                   {runs[k].cleaned_file[d] :
                       k \in {n \in Completed : /\ runs[n].outcome.cleaned = "ok"
                                                /\ out_of(runs[n]) = d}}
                       \cup {FileOf(to_csv(cleaned_df, total_cols_of(df)))}
        /\ \A t \in Timestamps :
               LET written == {n \in Completed : /\ runs[n].outcome.report = "ok"
                                                 /\ out_of(runs[n]) = d
                                                 /\ runs[n].report_path.timestamp = t}
               IN  written # {} =>
                       report_files[d][t] \in
                           {FileOf(runs[k].report_lines) : k \in written}
                               \cup {FileOf(report_lines)}

====
